---- MODULE Spec2Model ----
(***************************************************************************)
(* A model of the web-search HTTP gateway (src/src/api.ts), its shared     *)
(* utilities (utils.ts, the first file of src/unnamed/part_000) and the    *)
(* three collaborators the gateway drives and whose code is not part of    *)
(* the sources at hand: the search orchestrator, the content extractor and *)
(* the browser session pool, which are modelled from their specification.  *)
(*                                                                         *)
(* Strings the code inspects character by character are sequences of       *)
(* one-character strings; Str turns such a sequence into a TLA+ string.    *)
(***************************************************************************)
EXTENDS Integers, Sequences, FiniteSets, TLC

VARIABLES
    ucall,      \* the call of a pure utility function: its arguments and result
    pc,         \* where the gateway's request handler stands
    args,       \* the validated arguments of the request being served
    body,       \* the body of a request the gateway rejected
    resp,       \* the response the gateway sent
    call,       \* the search orchestrator's call in progress
    batch,      \* the content extractor's batch in progress
    page,       \* the content extractor's single-page extraction in progress
    peer,       \* a second request, served while the first one is in flight
    pool,       \* the browser session pool
    cleanup     \* what the gateway's closeAll calls did so far, and whether
                \* a shutdown handler is waiting for them before it exits

-----------------------------------------------------------------------------
(* Characters and strings                                                  *)

UpperChars == <<"A","B","C","D","E","F","G","H","I","J","K","L","M",
                "N","O","P","Q","R","S","T","U","V","W","X","Y","Z">>
LowerChars == <<"a","b","c","d","e","f","g","h","i","j","k","l","m",
                "n","o","p","q","r","s","t","u","v","w","x","y","z">>
Digits == <<"0","1","2","3","4","5","6","7","8","9">>
Whitespace == {" ", "\t", "\n", "\r"}

Min(a, b) == IF a < b THEN a ELSE b

RECURSIVE Str(_)
Str(s) == IF s = <<>> THEN "" ELSE s[1] \o Str(Tail(s))

ToLowerChar(c) ==
    IF \E i \in 1..Len(UpperChars) : UpperChars[i] = c
    THEN LowerChars[CHOOSE i \in 1..Len(UpperChars) : UpperChars[i] = c]
    ELSE c

ToLowerCase(s) == [i \in 1..Len(s) |-> ToLowerChar(s[i])]

StartsWith(s, p) == Len(s) >= Len(p) /\ SubSeq(s, 1, Len(p)) = p

EndsWith(s, p) == Len(s) >= Len(p) /\ SubSeq(s, Len(s) - Len(p) + 1, Len(s)) = p

DropPrefix(s, n) == SubSeq(s, n + 1, Len(s))

\* String.prototype.trim
Trim(s) ==
    LET keep == {i \in 1..Len(s) : s[i] \notin Whitespace}
    IN  IF keep = {} THEN <<>>
        ELSE SubSeq(s, CHOOSE i \in keep : \A j \in keep : i <= j,
                       CHOOSE i \in keep : \A j \in keep : j <= i)

\* s.split(c)[0]: the part of s before the first occurrence of the character c
BeforeFirst(s, c) ==
    LET hits == {i \in 1..Len(s) : s[i] = c}
    IN  IF hits = {} THEN s
        ELSE SubSeq(s, 1, (CHOOSE i \in hits : \A j \in hits : i <= j) - 1)

RECURSIVE JoinWith(_, _)
\* Array.prototype.join
JoinWith(parts, sep) ==
    IF parts = <<>> THEN <<>>
    ELSE IF Len(parts) = 1 THEN parts[1]
    ELSE parts[1] \o sep \o JoinWith(Tail(parts), sep)

ChHttp  == <<"h","t","t","p",":","/","/">>
ChHttps == <<"h","t","t","p","s",":","/","/">>
ChWww   == <<"w","w","w",".">>
ChPdf   == <<".","p","d","f">>
ChSite  == <<"s","i","t","e",":">>
ChOr    == <<" ","O","R"," ">>

-----------------------------------------------------------------------------
(* utils.ts                                                                *)

\* a variant that leaves the port in place
NormalizeDomainKeepsPort(domain) ==
    LET lowered == ToLowerCase(Trim(domain))
        noProto == IF StartsWith(lowered, ChHttps) THEN DropPrefix(lowered, Len(ChHttps))
                   ELSE IF StartsWith(lowered, ChHttp) THEN DropPrefix(lowered, Len(ChHttp))
                   ELSE lowered
        noWww   == IF StartsWith(noProto, ChWww) THEN DropPrefix(noProto, Len(ChWww))
                   ELSE noProto
    IN  BeforeFirst(noWww, "/")

\* normalizeDomain: trim, lowercase, strip the protocol, strip www., cut the
\* path at the first '/', cut the port at the first ':'
NormalizeDomain(domain) ==
    LET lowered == ToLowerCase(Trim(domain))
        noProto == IF StartsWith(lowered, ChHttps) THEN DropPrefix(lowered, Len(ChHttps))
                   ELSE IF StartsWith(lowered, ChHttp) THEN DropPrefix(lowered, Len(ChHttp))
                   ELSE lowered
        noWww   == IF StartsWith(noProto, ChWww) THEN DropPrefix(noProto, Len(ChWww))
                   ELSE noProto
    IN  BeforeFirst(BeforeFirst(noWww, "/"), ":")

NonEmptyDomain(d) == Len(d) > 0

\* the normalized, non-empty domains of a list, in the given order
NormalizedDomains(domains) ==
    SelectSeq([i \in 1..Len(domains) |-> NormalizeDomain(domains[i])], NonEmptyDomain)

SiteOperator(d) == ChSite \o d

\* the default of buildDomainFilteredQuery's maxDomainsInQuery
DefaultMaxDomainsInQuery == 10

\* a variant that joins the site: operators with a blank instead of " OR "
BuildDomainFilteredQueryNoOr(query, domains, maxDomainsInQuery) ==
    LET nd == NormalizedDomains(domains)
    IN  IF Len(domains) = 0 \/ Len(nd) = 0 \/ Len(nd) > maxDomainsInQuery THEN query
        ELSE IF Len(nd) = 1 THEN query \o <<" ">> \o SiteOperator(nd[1])
        ELSE query \o <<" ", "(">>
                   \o JoinWith([i \in 1..Len(nd) |-> SiteOperator(nd[i])], <<" ">>)
                   \o <<")">>

\* a variant that rewrites the query however many domains there are
BuildDomainFilteredQueryNoThreshold(query, domains, maxDomainsInQuery) ==
    LET nd == NormalizedDomains(domains)
    IN  IF Len(domains) = 0 \/ Len(nd) = 0 THEN query
        ELSE IF Len(nd) = 1 THEN query \o <<" ">> \o SiteOperator(nd[1])
        ELSE query \o <<" ", "(">>
                   \o JoinWith([i \in 1..Len(nd) |-> SiteOperator(nd[i])], ChOr)
                   \o <<")">>

BuildDomainFilteredQuery(query, domains, maxDomainsInQuery) ==
    LET nd == NormalizedDomains(domains)
    IN  IF Len(domains) = 0 THEN query
        ELSE IF Len(nd) = 0 THEN query
        ELSE IF Len(nd) > maxDomainsInQuery THEN query
        ELSE IF Len(nd) = 1 THEN query \o <<" ">> \o SiteOperator(nd[1])
        ELSE query \o <<" ", "(">>
                   \o JoinWith([i \in 1..Len(nd) |-> SiteOperator(nd[i])], ChOr)
                   \o <<")">>

\* the position of the first character of s that is in the set cs, or Len(s)+1
FirstOf(s, cs) ==
    LET hits == {i \in 1..Len(s) : s[i] \in cs}
    IN  IF hits = {} THEN Len(s) + 1 ELSE CHOOSE i \in hits : \A j \in hits : i <= j

\* new URL(url), for the inputs of this model: an absolute http(s) URL without
\* userinfo parses (scheme and host are lowercased, an empty path reads "/");
\* a string with no scheme throws
UrlRest(url) ==
    LET lowered == ToLowerCase(url)
    IN  IF StartsWith(lowered, ChHttps) THEN DropPrefix(url, Len(ChHttps))
        ELSE IF StartsWith(lowered, ChHttp) THEN DropPrefix(url, Len(ChHttp))
        ELSE <<>>

UrlAuthority(url) == SubSeq(UrlRest(url), 1, FirstOf(UrlRest(url), {"/", "?", "#"}) - 1)

UrlParses(url) == Len(UrlAuthority(url)) > 0

UrlHostname(url) == ToLowerCase(BeforeFirst(UrlAuthority(url), ":"))

UrlPathname(url) ==
    LET rest     == UrlRest(url)
        afterHost == DropPrefix(rest, Len(UrlAuthority(url)))
        path     == SubSeq(afterHost, 1, FirstOf(afterHost, {"?", "#"}) - 1)
    IN  IF path = <<>> THEN <<"/">> ELSE path

\* a variant that tests the raw string even when the URL parses
IsPdfUrlRawOnly(url) == EndsWith(ToLowerCase(url), ChPdf)

IsPdfUrl(url) ==
    IF UrlParses(url) THEN EndsWith(ToLowerCase(UrlPathname(url)), ChPdf)
    ELSE EndsWith(ToLowerCase(url), ChPdf)

ExtractDomainFromUrl(url) ==
    IF UrlParses(url) THEN NormalizeDomain(UrlHostname(url)) ELSE NormalizeDomain(url)

\* a variant that lets every URL pass
UrlMatchesDomainAlways(url, allowedDomains) == TRUE

UrlMatchesDomain(url, allowedDomains) ==
    IF Len(allowedDomains) = 0 THEN TRUE
    ELSE \E i \in 1..Len(allowedDomains) : allowedDomains[i] = ExtractDomainFromUrl(url)

\* String.prototype.substring(0, n)
Substring0(s, n) == SubSeq(s, 1, IF n < 0 THEN 0 ELSE Min(n, Len(s)))

\* the characters of s from the first one that is no whitespace
RECURSIVE SkipWhitespace(_)
SkipWhitespace(s) ==
    IF s = <<>> \/ Head(s) \notin Whitespace THEN s ELSE SkipWhitespace(Tail(s))

\* replace(/\s+/g, ' ')
RECURSIVE ReplaceWhitespaceRuns(_)
ReplaceWhitespaceRuns(s) ==
    IF s = <<>> THEN <<>>
    ELSE IF Head(s) \in Whitespace THEN <<" ">> \o ReplaceWhitespaceRuns(SkipWhitespace(s))
    ELSE <<Head(s)>> \o ReplaceWhitespaceRuns(Tail(s))

\* replace(/\n\s*\n/g, '\n'): a newline, the whitespace behind it up to the
\* last newline of that run
RECURSIVE ReplaceBlankLines(_)
ReplaceBlankLines(s) ==
    IF s = <<>> THEN <<>>
    ELSE IF Head(s) # "\n" THEN <<Head(s)>> \o ReplaceBlankLines(Tail(s))
    ELSE LET runEnd   == Len(s) - Len(SkipWhitespace(Tail(s)))
             newlines == {j \in 2..runEnd : s[j] = "\n"}
         IN  IF newlines = {} THEN <<"\n">> \o ReplaceBlankLines(Tail(s))
             ELSE <<"\n">> \o ReplaceBlankLines(
                      DropPrefix(s, CHOOSE j \in newlines : \A k \in newlines : k <= j))

CleanText(text, maxLength) ==
    Substring0(Trim(ReplaceBlankLines(ReplaceWhitespaceRuns(text))), maxLength)

ChEllipsis == <<".", ".", ".">>

GetContentPreview(text, maxLength) ==
    LET cleaned == CleanText(text, maxLength)
    IN  IF Len(cleaned) = maxLength THEN cleaned \o ChEllipsis ELSE cleaned

\* parseInt(s, 10): leading whitespace, an optional sign, then the longest run
\* of digits; NaN when there is no digit
DigitValue(c) == (CHOOSE i \in 1..Len(Digits) : Digits[i] = c) - 1

IsDigit(c) == \E i \in 1..Len(Digits) : Digits[i] = c

RECURSIVE DigitsValue(_, _)
DigitsValue(s, acc) ==
    IF s = <<>> \/ ~IsDigit(Head(s)) THEN acc
    ELSE DigitsValue(Tail(s), 10 * acc + DigitValue(Head(s)))

-----------------------------------------------------------------------------
(* JSON values of a request body, and what typeof answers for them         *)

JUndefined == [t |-> "undefined", v |-> 0]
JNull == [t |-> "null", v |-> 0]
JNaN == [t |-> "NaN", v |-> 0]
JNum(n) == [t |-> "number", v |-> n]
JStr(s) == [t |-> "string", v |-> s]
JBool(b) == [t |-> "boolean", v |-> b]
JArr(a) == [t |-> "array", v |-> a]

TypeOf(x) ==
    CASE x.t \in {"number", "NaN"} -> "number"
      [] x.t \in {"null", "array"} -> "object"
      [] OTHER -> x.t

IsNaN(x) == x.t = "NaN"

\* JavaScript truthiness
Truthy(x) ==
    CASE x.t \in {"undefined", "null", "NaN"} -> FALSE
      [] x.t = "number" -> x.v # 0
      [] x.t = "string" -> Len(x.v) > 0
      [] x.t = "boolean" -> x.v
      [] OTHER -> TRUE

ParseInt(s) ==
    LET inked    == {c \in {s[i] : i \in 1..Len(s)} : c \notin Whitespace}
        unpadded == DropPrefix(s, FirstOf(s, inked) - 1)
        signed   == unpadded # <<>> /\ Head(unpadded) \in {"-", "+"}
        digits   == IF signed THEN Tail(unpadded) ELSE unpadded
    IN  IF digits = <<>> \/ ~IsDigit(Head(digits)) THEN JNaN
        ELSE IF signed /\ Head(unpadded) = "-" THEN JNum(0 - DigitsValue(digits, 0))
        ELSE JNum(DigitsValue(digits, 0))

-----------------------------------------------------------------------------
(* Result records                                                          *)

\* a record as a provider adapter's parse step creates it: fetchStatus unset
NewRecord(url) ==
    [title |-> "title of " \o Str(url), url |-> url,
     description |-> "about " \o Str(url),
     fetchStatus |-> "unset", fullContent |-> <<>>, contentPreview |-> <<>>,
     wordCount |-> 0, error |-> ""]

RECURSIVE Dedup(_, _)
\* url is unique within one response: later duplicates dropped, first wins
Dedup(rs, seen) ==
    IF rs = <<>> THEN <<>>
    ELSE IF Head(rs).url \in seen THEN Dedup(Tail(rs), seen)
    ELSE <<Head(rs)>> \o Dedup(Tail(rs), seen \cup {Head(rs).url})

\* Array.prototype.slice(0, n)
Take(s, n) == SubSeq(s, 1, IF n < Len(s) THEN n ELSE Len(s))

-----------------------------------------------------------------------------
(* BrowserSessionPool: the browser is created on the first acquire; at     *)
(* most MaxSessions sessions are live; closeAll tears everything down.     *)

MaxSessions == 1
NumWorkers == 2

\* the tasks that hold sessions: the provider attempt of a search (task 0)
\* and the extraction attempt of the i-th record of a batch (task i)
SearchTask == 0
SessionIds == 1..(NumWorkers + 1)

EmptyPool == [browser |-> FALSE, sessions |-> {}]

Live(p) == Cardinality(p.sessions)

Holds(p, t) == \E x \in p.sessions : x.owner = t

\* a variant that never makes a caller wait
PoolCanGrantAlways(p) == TRUE

PoolCanGrant(p) == Live(p) < MaxSessions

FreshSession(p) ==
    CHOOSE i \in SessionIds :
        /\ \A x \in p.sessions : x.id # i
        /\ \A j \in SessionIds : (\A x \in p.sessions : x.id # j) => i <= j

PoolAcquire(p, t) ==
    [browser |-> TRUE, sessions |-> p.sessions \cup {[id |-> FreshSession(p), owner |-> t]}]

PoolRelease(p, t) == [p EXCEPT !.sessions = {x \in p.sessions : x.owner # t}]

\* a variant that raises when the browser was never created or is already closed
PoolCloseAllStrict(p) ==
    [pool |-> EmptyPool, raised |-> ~p.browser]

PoolCloseAll(p) == [pool |-> EmptyPool, raised |-> FALSE]

-----------------------------------------------------------------------------
(* SearchOrchestrator: providers in a fixed priority order, one at a time  *)

Providers == <<"Bing", "Brave", "DuckDuckGo">>
ErrorKinds == {"Blocked", "Timeout", "ParseFailure"}

NoSearch == [st |-> "none", text |-> <<>>, count |-> 0, domains |-> <<>>,
             postFilter |-> FALSE, idx |-> 0, tried |-> <<>>, inflight |-> {},
             reasons |-> <<>>, results |-> <<>>, engine |-> ""]

\* step 1: rewrite the query, or mark it for post-filtering when the domains
\* were given but the query was left as it is
NewSearch(query, numResults, domains) ==
    LET text == BuildDomainFilteredQuery(query, domains, DefaultMaxDomainsInQuery)
    IN  [NoSearch EXCEPT !.st = "acquiring", !.text = text, !.count = numResults,
                         !.domains = NormalizedDomains(domains),
                         !.postFilter = (Len(domains) > 0 /\ text = query),
                         !.idx = 1]

\* ProviderAdapter: what the parse step returns for a listing, cut to count
AdapterResults(listing, count) ==
    Take(Dedup([i \in 1..Len(listing) |-> NewRecord(listing[i])], {}), count)

\* steps 4 and 5: post-filter when marked, then clip to the requested count
FinalResults(c, rs) ==
    LET kept == IF c.postFilter
                THEN SelectSeq(rs, LAMBDA r : UrlMatchesDomain(r.url, c.domains))
                ELSE rs
    IN  Take(kept, c.count)

\* step 2, on a response with at least one result: accept it
AfterAnswer(c, rs) ==
    [c EXCEPT !.st = "returned", !.inflight = {},
              !.results = FinalResults(c, rs), !.engine = Providers[c.idx]]

\* steps 2 and 3, on a ProviderError: record the reason, go on to the next
\* provider, and fail with every reason when there is none left
AfterFailure(c, kind) ==
    LET rsn == Append(c.reasons, [provider |-> Providers[c.idx], reason |-> kind])
    IN  IF c.idx < Len(Providers)
        THEN [c EXCEPT !.st = "acquiring", !.idx = c.idx + 1, !.inflight = {},
                       !.reasons = rsn]
        ELSE [c EXCEPT !.st = "failed", !.inflight = {}, !.reasons = rsn]

-----------------------------------------------------------------------------
(* ContentExtractor.extractContentForResults: a fixed number of workers,   *)
(* each attempt holding one session; the output keeps the input's order.   *)

PageText == <<"l","o","n","g"," ","t","e","x","t">>

\* getWordCount: the whitespace-delimited non-empty tokens
GetWordCount(text) ==
    Cardinality({i \in 1..Len(text) :
                    /\ text[i] \notin Whitespace
                    /\ (i = 1 \/ text[i - 1] \in Whitespace)})

NoBatch == [st |-> "none", input |-> <<>>, limit |-> 0, todo |-> <<>>,
            active |-> {}, out |-> <<>>, attempted |-> {}, finished |-> <<>>]

\* the records that qualify for extraction, by position, in input order
Qualifying(results) ==
    SelectSeq([i \in 1..Len(results) |-> i], LAMBDA i : ~IsPdfUrl(results[i].url))

NewBatch(results, limit) ==
    [NoBatch EXCEPT !.st = "running", !.input = results, !.limit = limit,
                    !.todo = Take(Qualifying(results), limit),
                    !.out = results]

FetchOutcomes == {"success", "error", "timeout"}

Annotated(r, outcome) ==
    CASE outcome = "success" ->
            [r EXCEPT !.fetchStatus = "success", !.fullContent = PageText,
                      !.wordCount = GetWordCount(PageText)]
      [] outcome = "timeout" ->
            [r EXCEPT !.fetchStatus = "timeout", !.error = "timed out"]
      [] OTHER ->
            [r EXCEPT !.fetchStatus = "error", !.error = "navigation failed"]

\* the tasks in flight without task i
WithoutActive(b, i) == {a \in b.active : a.idx # i}

\* a variant that hands the records back in the order the attempts complete:
\* the record just completed moves behind the ones completed before it
CompleteItemInCompletionOrder(b, i, outcome) ==
    LET others == SelectSeq(b.out, LAMBDA r : r # b.input[i])
        done   == Len(b.finished)
    IN  [b EXCEPT !.active = WithoutActive(b, i),
                  !.finished = Append(@, i),
                  !.out = SubSeq(others, 1, Min(done, Len(others)))
                          \o <<Annotated(b.input[i], outcome)>>
                          \o SubSeq(others, Min(done, Len(others)) + 1, Len(others))]

\* a variant in which one failed attempt makes the whole call raise
CompleteItemAborting(b, i, outcome) ==
    IF outcome = "success"
    THEN [b EXCEPT !.active = WithoutActive(b, i),
                   !.finished = Append(@, i),
                   !.out[i] = Annotated(b.input[i], outcome)]
    ELSE [b EXCEPT !.st = "raised", !.active = {}, !.todo = <<>>]

\* one attempt ends: its record, and only its record, is annotated in place;
\* finished keeps the order in which the attempts ended
CompleteItem(b, i, outcome) ==
    [b EXCEPT !.active = WithoutActive(b, i),
              !.finished = Append(@, i),
              !.out[i] = Annotated(b.input[i], outcome)]

-----------------------------------------------------------------------------
(* ContentExtractor.extractContent: the single-URL variant; it raises a    *)
(* typed failure and truncates to maxContentLength itself when positive.   *)

\* the task that holds the session of a single-page extraction
PageTask == -1

\* the task of the provider attempt of the second request's search
PeerTask == -2

\* a thrown value: an Error with its message (the aggregate SearchError with
\* its reasons as well), or a value that is no Error
ErrorOf(msg) == [isError |-> TRUE, message |-> msg, reasons |-> <<>>]
NotAnError == [isError |-> FALSE, message |-> "", reasons |-> <<>>]

\* the aggregate failure the orchestrator raises for a call all of whose
\* providers failed
SearchError(c) == [ErrorOf("all providers failed") EXCEPT !.reasons = c.reasons]

\* the failure of the batch extraction as a whole
BatchError == ErrorOf("extraction failed")

\* what the single-page extraction may throw
ContentErrors == {ErrorOf("content extraction failed"), ErrorOf(""), NotAnError}

NoPage == [st |-> "none", url |-> <<>>, maxContentLength |-> 0, cleaned |-> <<>>,
           content |-> <<>>, error |-> NotAnError]

NewPage(url, maxContentLength) ==
    [NoPage EXCEPT !.st = "acquiring", !.url = url, !.maxContentLength = maxContentLength]

\* what extractContent returns for a page whose cleaned text is given
ExtractContent(cleaned, maxContentLength) ==
    IF maxContentLength > 0 THEN Substring0(cleaned, maxContentLength) ELSE cleaned

\* the page was fetched and cleaned: the call returns its text
PageFetched(pg, cleaned) ==
    [pg EXCEPT !.st = "returned", !.cleaned = cleaned,
               !.content = ExtractContent(cleaned, pg.maxContentLength)]

\* the fetch failed: the call raises a ContentError
PageFailed(pg, error) == [pg EXCEPT !.st = "raised", !.error = error]

-----------------------------------------------------------------------------
(* api.ts: request validation                                              *)

DefaultLimit == 5
MinLimit == 1
MaxLimit == 10

ChTrue == <<"t","r","u","e">>

MsgQuery == "query is required and must be a string"
MsgLimit == "limit must be a number between 1 and 10"
MsgMaxContentLength == "maxContentLength must be a non-negative number"
MsgDomains == "domains must be an array of strings"

\* const { limit = 5, ... } = req.body
WithDefault(x, d) == IF x = JUndefined THEN d ELSE x

QueryRejected(query) == ~Truthy(query) \/ TypeOf(query) # "string"

\* a variant that forgets the upper end of the range
LimitValueNoUpperEnd(limit) ==
    LET given == WithDefault(limit, JNum(DefaultLimit))
        limitValue == IF TypeOf(given) = "string" THEN ParseInt(given.v) ELSE given
    IN  IF TypeOf(limitValue) # "number" \/ IsNaN(limitValue) \/ limitValue.v < MinLimit
        THEN JNaN ELSE limitValue

\* "Validate limit": the number the limit stands for, or NaN when the request
\* is to be rejected
LimitValue(limit) ==
    LET given == WithDefault(limit, JNum(DefaultLimit))
        limitValue == IF TypeOf(given) = "string" THEN ParseInt(given.v) ELSE given
    IN  IF \/ TypeOf(limitValue) # "number"
           \/ IsNaN(limitValue)
           \/ limitValue.v < MinLimit
           \/ limitValue.v > MaxLimit
        THEN JNaN ELSE limitValue

\* "Validate includeContent"
IncludeContentValue(includeContent) ==
    LET given == WithDefault(includeContent, JBool(TRUE))
    IN  IF TypeOf(given) = "string" THEN ToLowerCase(given.v) = ChTrue ELSE Truthy(given)

\* "Validate maxContentLength": NaN to reject, 0 for "no limit" (undefined)
MaxContentLengthValue(maxContentLength) ==
    LET maxLengthValue == IF TypeOf(maxContentLength) = "string"
                          THEN ParseInt(maxContentLength.v) ELSE maxContentLength
    IN  IF maxContentLength = JUndefined THEN JNum(0)
        ELSE IF \/ TypeOf(maxLengthValue) # "number"
                \/ IsNaN(maxLengthValue)
                \/ maxLengthValue.v < 0
        THEN JNaN ELSE maxLengthValue

DomainsRejected(domains) == domains # JUndefined /\ domains.t # "array"

\* "Validate domains": the strings of the array; <<>> stands for undefined
DomainsValue(domains) ==
    IF domains = JUndefined THEN <<>>
    ELSE LET strings == SelectSeq(domains.v, LAMBDA d : TypeOf(d) = "string")
         IN  [i \in 1..Len(strings) |-> strings[i].v]

\* the message of the 400 response of POST /api/search, "" when it is accepted
SearchRejection(b) ==
    IF QueryRejected(b.query) THEN MsgQuery
    ELSE IF IsNaN(LimitValue(b.limit)) THEN MsgLimit
    ELSE IF IsNaN(MaxContentLengthValue(b.maxContentLength)) THEN MsgMaxContentLength
    ELSE IF DomainsRejected(b.domains) THEN MsgDomains
    ELSE ""

\* the message of the 400 response of POST /api/search/summaries
SummariesRejection(b) ==
    IF QueryRejected(b.query) THEN MsgQuery
    ELSE IF IsNaN(LimitValue(b.limit)) THEN MsgLimit
    ELSE IF DomainsRejected(b.domains) THEN MsgDomains
    ELSE ""

MsgUrl == "url is required and must be a string"
MsgUrlFormat == "url must be a valid URL"

\* the message of the 400 response of POST /api/content
ContentRejection(b) ==
    IF ~Truthy(b.url) \/ TypeOf(b.url) # "string" THEN MsgUrl
    ELSE IF ~UrlParses(b.url.v) THEN MsgUrlFormat
    ELSE IF IsNaN(MaxContentLengthValue(b.maxContentLength)) THEN MsgMaxContentLength
    ELSE ""

NoArgs == [endpoint |-> "none", query |-> <<>>, limit |-> 0, includeContent |-> FALSE,
           maxContentLength |-> 0, domains |-> <<>>]

ValidatedArgs(endpoint, b) ==
    [endpoint |-> endpoint, query |-> b.query.v, limit |-> LimitValue(b.limit).v,
     includeContent |-> IncludeContentValue(b.includeContent),
     maxContentLength |-> MaxContentLengthValue(b.maxContentLength).v,
     domains |-> DomainsValue(b.domains)]

\* handleWebSearch: the number of results asked of the search engine
SearchLimit(limit, includeContent, domains) ==
    IF includeContent
    THEN (IF Len(domains) > 0 THEN MaxLimit ELSE Min(limit * 2 + 2, MaxLimit))
    ELSE (IF Len(domains) > 0 THEN Min(limit * 3, MaxLimit) ELSE limit)

-----------------------------------------------------------------------------
(* api.ts: responses                                                       *)

NoResp == [status |-> 0, success |-> FALSE, message |-> "",
           total_results |-> 0, results |-> <<>>, engine |-> "",
           content |-> <<>>, contentTruncated |-> JUndefined, originalLength |-> 0,
           wordCount |-> 0]

Rejected(msg) == [NoResp EXCEPT !.status = 400, !.message = msg]

MsgUnexpected == "An unexpected error occurred"

\* err.message || 'An unexpected error occurred'
ErrorMessage(err) ==
    IF err.isError /\ err.message # "" THEN err.message ELSE MsgUnexpected

\* handleWebSearch's catch block: whatever was thrown is replaced by a new
\* Error that keeps the message of an Error and nothing else
WebSearchFailed(error) ==
    ErrorOf("Web search failed: "
            \o (IF error.isError THEN error.message ELSE "Unknown error"))

\* a variant that swallows the error and answers with an empty result list
InternalErrorAsEmpty(err) ==
    [NoResp EXCEPT !.status = 200, !.success = TRUE, !.message = ErrorMessage(err)]

\* the error handling middleware: status 500, success false and the message
InternalError(err) ==
    [NoResp EXCEPT !.status = 500, !.message = ErrorMessage(err)]

\* a variant that hands out the preview next to the full content
FormatResultWithPreview(r, maxLen) ==
    LET base == [has |-> {"title", "url", "description", "fetchStatus"},
                 title |-> r.title, url |-> r.url, description |-> r.description,
                 fetchStatus |-> r.fetchStatus, fullContent |-> <<>>,
                 contentTruncated |-> FALSE, originalLength |-> 0, wordCount |-> 0,
                 contentPreview |-> <<>>, error |-> ""]
        content == IF Len(Trim(r.fullContent)) > 0
                   THEN [base EXCEPT !.has = @ \cup {"fullContent", "wordCount"},
                                     !.fullContent = Substring0(r.fullContent,
                                                        IF maxLen > 0 THEN maxLen
                                                        ELSE Len(r.fullContent)),
                                     !.wordCount = r.wordCount]
                   ELSE base
    IN  IF Len(Trim(r.contentPreview)) > 0
        THEN [content EXCEPT !.has = @ \cup {"contentPreview"},
                             !.contentPreview = r.contentPreview]
        ELSE content

\* one record of the /api/search response; has is the set of its keys
FormatResult(r, maxLen) ==
    LET base == [has |-> {"title", "url", "description", "fetchStatus"},
                 title |-> r.title, url |-> r.url, description |-> r.description,
                 fetchStatus |-> r.fetchStatus, fullContent |-> <<>>,
                 contentTruncated |-> FALSE, originalLength |-> 0, wordCount |-> 0,
                 contentPreview |-> <<>>, error |-> ""]
        content == IF Len(Trim(r.fullContent)) > 0
                   THEN IF maxLen > 0 /\ Len(r.fullContent) > maxLen
                        THEN [base EXCEPT !.has = @ \cup {"fullContent", "contentTruncated",
                                                          "originalLength", "wordCount"},
                                          !.fullContent = SubSeq(r.fullContent, 1, maxLen),
                                          !.contentTruncated = TRUE,
                                          !.originalLength = Len(r.fullContent),
                                          !.wordCount = r.wordCount]
                        ELSE [base EXCEPT !.has = @ \cup {"fullContent", "wordCount"},
                                          !.fullContent = r.fullContent,
                                          !.wordCount = r.wordCount]
                   ELSE IF Len(Trim(r.contentPreview)) > 0
                   THEN [base EXCEPT !.has = @ \cup {"contentPreview"},
                                     !.contentPreview = r.contentPreview]
                   ELSE base
    IN  IF r.fetchStatus = "error" /\ r.error # ""
        THEN [content EXCEPT !.has = @ \cup {"error"}, !.error = r.error]
        ELSE content

\* one record of the /api/search/summaries response
SummaryResult(r) ==
    [has |-> {"title", "url", "description"},
     title |-> r.title, url |-> r.url, description |-> r.description]

\* the 200 response of POST /api/search for handleWebSearch's enhanced results
SearchOutput(a, enhanced) ==
    [NoResp EXCEPT !.status = 200, !.success = TRUE,
                   !.total_results = Len(enhanced),
                   !.results = [i \in 1..Len(enhanced) |->
                                   FormatResult(enhanced[i], a.maxContentLength)]]

\* a variant that always names the provider of highest priority
SummariesOutputFirstEngine(c) ==
    [NoResp EXCEPT !.status = 200, !.success = TRUE,
                   !.total_results = Len(c.results),
                   !.results = [i \in 1..Len(c.results) |-> SummaryResult(c.results[i])],
                   !.engine = Providers[1]]

\* the 200 response of POST /api/search/summaries
SummariesOutput(c) ==
    [NoResp EXCEPT !.status = 200, !.success = TRUE,
                   !.total_results = Len(c.results),
                   !.results = [i \in 1..Len(c.results) |-> SummaryResult(c.results[i])],
                   !.engine = c.engine]

\* the 200 response of POST /api/content for what extractContent returned;
\* maxLen 0 stands for undefined
ContentOutput(maxLen, content) ==
    [NoResp EXCEPT !.status = 200, !.success = TRUE,
                   !.content = IF maxLen > 0 /\ Len(content) > maxLen
                               THEN Substring0(content, maxLen) ELSE content,
                   !.contentTruncated = IF maxLen = 0 THEN JUndefined
                                        ELSE JBool(Len(content) > maxLen),
                   !.originalLength = Len(content),
                   !.wordCount = GetWordCount(content)]

-----------------------------------------------------------------------------
(* Inputs of the utility functions                                         *)

MaxDomains == 3

QCats == <<"c","a","t","s">>
QEmpty == <<>>

DExampleCom == ChHttps \o <<"E","x","a","m","p","l","e",".","c","o","m","/">>
DExampleOrg == ChWww \o <<"e","x","a","m","p","l","e",".","o","r","g">>
DPortPath   == <<" ","H","T","T","P",":","/","/","W","W","W",".","A",".","c","o","m",
                 ":","8","0","/","p","/","q"," ">>
DPlain      == <<"b",".","c","o","m">>
DBlank      == <<" ">>
DProtoOnly  == ChHttps
DWwwOnly    == <<"W","w","w",".","/","x">>

UtilQueries == {QCats, QEmpty}
UtilDomains == {DExampleCom, DExampleOrg, DPortPath, DPlain, DBlank, DProtoOnly, DWwwOnly, <<>>}
UtilDomainLists == UNION {[1..n -> UtilDomains] : n \in 0..MaxDomains}
UtilThresholds == {1, 2, DefaultMaxDomainsInQuery}

DWwwTwice   == ChWww \o ChWww \o <<"a",".","c","o","m">>
DProtoTwice == ChHttp \o ChHttps \o <<"a",".","c","o","m">>
DFull       == ChHttps \o <<"w","w","w",".","E","x","a","m","p","l","e",".","c","o","m",
                            ":","8","0","8","0","/","p","a","t","h">>
DWwwProto   == ChWww \o ChHttp \o <<"a",".","c","o","m">>
NormalizeInputs == UtilDomains \cup {DWwwTwice, DProtoTwice, DFull, DWwwProto}

MaxTextLen == 4

\* texts over a letter, the character of the ellipsis, a blank and a newline
TextChars == {"a", ".", " ", "\n"}
UtilTexts == UNION {[1..n -> TextChars] : n \in 0..MaxTextLen}
UtilMaxLengths == 0..(MaxTextLen + 1)

-----------------------------------------------------------------------------
(* Inputs of the gateway, the providers and the extractor                  *)

MaxResults == 3
MaxCloses == 2

U1 == ChHttps \o <<"a",".","c","o","m","/","x">>
U2 == ChHttps \o <<"w","w","w",".","b",".","c","o","m","/","r",".","P","D","F">>
U3 == ChHttps \o <<"c",".","o","r","g","/","q","?","f","=","x",".","p","d","f">>
U4 == <<"c",".","o","r","g","/","d",".","p","d","f">>
U5 == ChHttps \o <<"A",".","c","o","m","/","y",".","p","d","f","?","v","=","1">>
U6 == ChHttps \o <<"b",".","c","o","m","/","z">>

\* what a provider's result page may list, in ranking order
ProviderListings ==
    {<<>>, <<U1, U2, U3, U6>>, <<U2, U1, U1, U5>>, <<U3>>, <<U1, U3, U6, U4, U2>>}

ProviderOutcomes ==
    {[kind |-> k, listing |-> <<>>] : k \in ErrorKinds}
        \cup {[kind |-> "listing", listing |-> l] : l \in ProviderListings}

DACom == <<"a",".","c","o","m">>
DHttpsACom == ChHttps \o <<"A",".","c","o","m","/">>
DWwwBCom == ChWww \o <<"b",".","c","o","m">>

\* one domain more than buildDomainFilteredQuery puts into a query
ManyDomains ==
    [i \in 1..(DefaultMaxDomainsInQuery + 1) |->
        IF i = 1 THEN JStr(DACom)
        ELSE JStr(<<"d", Digits[(i \div 10) + 1], Digits[(i % 10) + 1]>>)]

\* as many entries, one of them blank: one domain fewer after normalization
ManyDomainsOneBlank ==
    [i \in 1..(DefaultMaxDomainsInQuery + 1) |->
        IF i = 2 THEN JStr(DBlank) ELSE ManyDomains[i]]

QueryInputs == {JUndefined, JStr(<<>>), JStr(QCats), JNum(7)}
LimitInputs ==
    {JUndefined, JNull, JBool(TRUE)}
        \cup {JNum(n) : n \in {-1, 0, 1, 2, 3, 10, 11}}
        \cup {JStr(t) : t \in {<<"2","x">>, <<" ","1","0">>, <<"1","1">>, <<"0">>,
                               <<"x">>, <<>>}}
IncludeContentInputs ==
    {JUndefined, JBool(FALSE), JStr(<<"T","R","U","E">>), JStr(<<"n","o">>), JNum(0)}
MaxContentLengthInputs == {JUndefined, JNum(0), JNum(-1), JNum(4), JStr(<<"4","x">>), JStr(<<"x">>)}
DomainsInputs ==
    {JUndefined, JNull, JStr(DACom), JArr(<<>>), JArr(<<JNum(1)>>),
     JArr(<<JStr(DWwwBCom)>>), JArr(<<JStr(DHttpsACom), JNum(1), JStr(DWwwBCom)>>),
     JArr(ManyDomains), JArr(ManyDomainsOneBlank), JArr(<<JStr(DBlank)>>)}

SearchBodies ==
    [query : QueryInputs, limit : LimitInputs, includeContent : IncludeContentInputs,
     maxContentLength : MaxContentLengthInputs, domains : DomainsInputs,
     url : {JUndefined}]

SummariesBodies ==
    [query : QueryInputs, limit : LimitInputs, includeContent : {JUndefined},
     maxContentLength : {JUndefined}, domains : DomainsInputs, url : {JUndefined}]

NoBody == [query |-> JUndefined, limit |-> JUndefined, includeContent |-> JUndefined,
           maxContentLength |-> JUndefined, domains |-> JUndefined, url |-> JUndefined]

UrlInputs == {JUndefined, JNum(7), JStr(<<>>), JStr(U1), JStr(U4)}

ContentBodies ==
    [query : {JUndefined}, limit : {JUndefined}, includeContent : {JUndefined},
     maxContentLength : MaxContentLengthInputs, domains : {JUndefined}, url : UrlInputs]

\* what a page's text may be after the cleaning pipeline
ShortText == <<"h","i">>
CleanedPageTexts == {PageText, ShortText, SubSeq(PageText, 1, 4)}

ExtractUrls == {U1, U2, U3, U4, U5}
ExtractInputs ==
    UNION {[1..n -> {NewRecord(u) : u \in ExtractUrls}] : n \in 0..MaxResults}
ExtractLimits == 0..(MaxResults + 1)

\* result records as the response formatting may meet them
ChPreview == <<"l","o",".",".",".">>
FormatRecords ==
    {[NewRecord(U1) EXCEPT !.fetchStatus = fs, !.fullContent = fc, !.contentPreview = cp,
                           !.wordCount = GetWordCount(fc), !.error = e] :
        fs \in {"unset", "success", "error", "timeout"},
        fc \in {<<>>, <<" ">>, PageText},
        cp \in {<<>>, <<" ">>, ChPreview},
        e \in {"", "navigation failed"}}
FormatMaxLengths == {0, 4, Len(PageText), Len(PageText) + 1}

\* the first request of two: a search without content, in flight
ConcurrentBodies ==
    {[NoBody EXCEPT !.query = JStr(QCats), !.includeContent = JBool(FALSE),
                    !.limit = JNum(2)]}

\* the second request: a rejected one, one with a query, one with domains
PeerBodies ==
    {NoBody, [NoBody EXCEPT !.query = JStr(QCats)],
     [NoBody EXCEPT !.query = JStr(QCats), !.limit = JNum(1),
                    !.domains = JArr(<<JStr(DWwwBCom)>>)]}

NoCall == [fn |-> "none"]
NoPeer == [st |-> "none", call |-> NoSearch, status |-> 0]
NoCleanup == [closes |-> 0, raised |-> FALSE, exiting |-> FALSE]

-----------------------------------------------------------------------------
(* The gateway serving one request after another                           *)

vars == <<ucall, pc, args, body, resp, call, batch, page, peer, pool, cleanup>>

Init ==
    /\ ucall = NoCall
    /\ pc = "idle"
    /\ args = NoArgs
    /\ body = NoBody
    /\ resp = NoResp
    /\ call = NoSearch
    /\ batch = NoBatch
    /\ page = NoPage
    /\ peer = NoPeer
    /\ pool = EmptyPool
    /\ cleanup = NoCleanup

\* await this.searchEngine.closeAll() inside try/catch: a failure is logged
Closed(c, r) ==
    [c EXCEPT !.closes = Min(c.closes + 1, MaxCloses), !.raised = c.raised \/ r.raised]

\* POST /api/search up to its first await: validation, then handleWebSearch
\* up to the call of searchEngine.search
PostSearch ==
    /\ pc = "idle"
    /\ \E b \in SearchBodies :
          IF SearchRejection(b) # ""
          THEN /\ pc' = "done"
               /\ resp' = Rejected(SearchRejection(b))
               /\ body' = b
               /\ UNCHANGED <<args, call>>
          ELSE LET a == ValidatedArgs("search", b)
               IN  /\ pc' = "search"
                   /\ args' = a
                   /\ call' = NewSearch(a.query,
                                        SearchLimit(a.limit, a.includeContent, a.domains),
                                        a.domains)
                   /\ UNCHANGED <<resp, body>>
    /\ UNCHANGED <<ucall, page, peer, batch, pool, cleanup>>

\* POST /api/search/summaries up to its first await; a rejected request
\* returns inside the try block, so the finally block runs closeAll
PostSummaries ==
    /\ pc = "idle"
    /\ \E b \in SummariesBodies :
          IF SummariesRejection(b) # ""
          THEN /\ pc' = "done"
               /\ resp' = Rejected(SummariesRejection(b))
               /\ body' = b
               /\ pool' = PoolCloseAll(pool).pool
               /\ cleanup' = Closed(cleanup, PoolCloseAll(pool))
               /\ UNCHANGED <<args, call>>
          ELSE LET a == ValidatedArgs("summaries", b)
               IN  /\ pc' = "search"
                   /\ args' = a
                   /\ call' = NewSearch(a.query, a.limit, a.domains)
                   /\ UNCHANGED <<resp, body, pool, cleanup>>
    /\ UNCHANGED <<ucall, page, peer, batch>>

\* the adapter of the provider in turn gets its session and issues the search
ProviderAttempt ==
    /\ pc # "exited"
    /\ call.st = "acquiring"
    /\ PoolCanGrant(pool)
    /\ pool' = PoolAcquire(pool, SearchTask)
    /\ call' = [call EXCEPT !.st = "attempt",
                            !.tried = Append(@, Providers[call.idx]),
                            !.inflight = @ \cup {Providers[call.idx]}]
    /\ UNCHANGED <<ucall, page, peer, pc, args, body, resp, batch, cleanup>>

\* the provider in flight answers or fails; its session goes back to the pool
ProviderReturn ==
    /\ pc # "exited"
    /\ call.st = "attempt"
    /\ \E o \in ProviderOutcomes :
          LET rs == AdapterResults(o.listing, call.count)
          IN  call' = IF o.kind \in ErrorKinds THEN AfterFailure(call, o.kind)
                      ELSE IF rs = <<>> THEN AfterFailure(call, "Empty")
                      ELSE AfterAnswer(call, rs)
    /\ pool' = PoolRelease(pool, SearchTask)
    /\ UNCHANGED <<ucall, page, peer, pc, args, body, resp, batch, cleanup>>

\* handleWebSearch after searchEngine.search: the failure is rethrown and
\* becomes the 500 response; the results are cut to the limit, or handed to
\* extractContentForResults
SearchContinue ==
    /\ pc = "search"
    /\ args.endpoint = "search"
    /\ call.st \in {"returned", "failed"}
    /\ IF call.st = "failed"
       THEN /\ pc' = "done"
            /\ resp' = InternalError(WebSearchFailed(SearchError(call)))
            /\ UNCHANGED <<call, batch>>
       ELSE IF args.includeContent
       THEN /\ pc' = "extract"
            /\ batch' = NewBatch(call.results, args.limit)
            /\ call' = NoSearch
            /\ UNCHANGED resp
       ELSE /\ pc' = "done"
            /\ resp' = SearchOutput(args, Take(call.results, args.limit))
            /\ UNCHANGED <<call, batch>>
    /\ UNCHANGED <<ucall, page, peer, args, body, pool, cleanup>>

\* POST /api/search/summaries after searchEngine.search: the response, then
\* the finally block's closeAll
SummariesContinue ==
    /\ pc = "search"
    /\ args.endpoint = "summaries"
    /\ call.st \in {"returned", "failed"}
    /\ pc' = "done"
    /\ resp' = IF call.st = "failed"
               THEN InternalError(SearchError(call))
               ELSE SummariesOutput(call)
    /\ pool' = PoolCloseAll(pool).pool
    /\ cleanup' = Closed(cleanup, PoolCloseAll(pool))
    /\ UNCHANGED <<ucall, page, peer, args, body, call, batch>>

\* a worker takes the next record to attempt and asks the pool for a session
StartAttempt ==
    /\ pc # "exited"
    /\ batch.st = "running"
    /\ batch.todo # <<>>
    /\ Cardinality(batch.active) < NumWorkers
    /\ batch' = [batch EXCEPT !.todo = Tail(@),
                              !.active = @ \cup {[idx |-> Head(batch.todo), st |-> "acquiring"]},
                              !.attempted = @ \cup {Head(batch.todo)}]
    /\ UNCHANGED <<ucall, page, peer, pc, args, body, resp, call, pool, cleanup>>

\* a waiting attempt gets its session and navigates
GrantAttempt ==
    /\ pc # "exited"
    /\ batch.st = "running"
    /\ PoolCanGrant(pool)
    /\ \E a \in batch.active :
          /\ a.st = "acquiring"
          /\ batch' = [batch EXCEPT !.active = (@ \ {a}) \cup {[a EXCEPT !.st = "fetching"]}]
          /\ pool' = PoolAcquire(pool, a.idx)
    /\ UNCHANGED <<ucall, page, peer, pc, args, body, resp, call, cleanup>>

\* an attempt in flight ends, well or badly, and releases its session
CompleteAttempt ==
    /\ pc # "exited"
    /\ batch.st = "running"
    /\ \E a \in batch.active, outcome \in FetchOutcomes :
          /\ a.st = "fetching"
          /\ batch' = CompleteItem(batch, a.idx, outcome)
          /\ pool' = PoolRelease(pool, a.idx)
    /\ UNCHANGED <<ucall, page, peer, pc, args, body, resp, call, cleanup>>

\* the barrier: every attempt has ended, the call returns its records
BatchReturn ==
    /\ pc # "exited"
    /\ batch.st = "running"
    /\ batch.todo = <<>>
    /\ batch.active = {}
    /\ batch' = [batch EXCEPT !.st = "returned"]
    /\ UNCHANGED <<ucall, page, peer, pc, args, body, resp, call, pool, cleanup>>

\* handleWebSearch after extractContentForResults, and the response
ExtractContinue ==
    /\ pc = "extract"
    /\ batch.st \in {"returned", "raised"}
    /\ pc' = "done"
    /\ resp' = IF batch.st = "raised"
               THEN InternalError(WebSearchFailed(BatchError))
               ELSE SearchOutput(args, batch.out)
    /\ UNCHANGED <<ucall, page, peer, args, body, call, batch, pool, cleanup>>

\* POST /api/content up to its await: validation, then extractContent
PostContent ==
    /\ pc = "idle"
    /\ \E b \in ContentBodies :
          IF ContentRejection(b) # ""
          THEN /\ pc' = "done"
               /\ resp' = Rejected(ContentRejection(b))
               /\ body' = b
               /\ UNCHANGED <<args, page>>
          ELSE LET m == MaxContentLengthValue(b.maxContentLength).v
               IN  /\ pc' = "content"
                   /\ args' = [NoArgs EXCEPT !.endpoint = "content", !.maxContentLength = m]
                   /\ page' = NewPage(b.url.v, m)
                   /\ UNCHANGED <<resp, body>>
    /\ UNCHANGED <<ucall, call, batch, peer, pool, cleanup>>

\* the single-page extraction gets its session and navigates
PageAcquire ==
    /\ pc # "exited"
    /\ page.st = "acquiring"
    /\ PoolCanGrant(pool)
    /\ pool' = PoolAcquire(pool, PageTask)
    /\ page' = [page EXCEPT !.st = "fetching"]
    /\ UNCHANGED <<ucall, pc, args, body, resp, call, batch, peer, cleanup>>

\* the single-page extraction ends: the cleaned text, cut to the maximum,
\* or a ContentError; the session goes back to the pool
PageReturn ==
    /\ pc # "exited"
    /\ page.st = "fetching"
    /\ \/ \E cleaned \in CleanedPageTexts : page' = PageFetched(page, cleaned)
       \/ \E error \in ContentErrors : page' = PageFailed(page, error)
    /\ pool' = PoolRelease(pool, PageTask)
    /\ UNCHANGED <<ucall, pc, args, body, resp, call, batch, peer, cleanup>>

\* POST /api/content after extractContent, and the response
ContentContinue ==
    /\ pc = "content"
    /\ page.st \in {"returned", "raised"}
    /\ pc' = "done"
    /\ resp' = IF page.st = "raised"
               THEN InternalError(page.error)
               ELSE ContentOutput(args.maxContentLength, page.content)
    /\ UNCHANGED <<ucall, args, body, call, batch, page, peer, pool, cleanup>>

\* the response is out; the server waits for the next request
Finish ==
    /\ pc = "done"
    /\ pc' = "idle"
    /\ args' = NoArgs
    /\ body' = NoBody
    /\ resp' = NoResp
    /\ call' = NoSearch
    /\ batch' = NoBatch
    /\ page' = NoPage
    /\ UNCHANGED <<ucall, peer, pool, cleanup>>

\* SIGINT or SIGTERM up to the handler's await: contentExtractor.closeAll()
\* and searchEngine.closeAll() are called; the server goes on serving until
\* both have settled
Shutdown ==
    /\ pc # "exited"
    /\ LET first  == PoolCloseAll(pool)
           second == PoolCloseAll(first.pool)
       IN  /\ pool' = second.pool
           /\ cleanup' = [Closed(Closed(cleanup, first), second) EXCEPT !.exiting = TRUE]
    /\ UNCHANGED <<ucall, pc, args, body, resp, call, batch, page, peer>>

\* the handler after its await: process.exit(0), whether closeAll failed or
\* not; whatever was in flight is gone
Exit ==
    /\ pc # "exited"
    /\ cleanup.exiting
    /\ pc' = "exited"
    /\ cleanup' = [cleanup EXCEPT !.exiting = FALSE]
    /\ pool' = EmptyPool
    /\ args' = NoArgs
    /\ body' = NoBody
    /\ resp' = NoResp
    /\ call' = NoSearch
    /\ batch' = NoBatch
    /\ page' = NoPage
    /\ UNCHANGED <<ucall, peer>>

Next ==
    \/ PostSearch
    \/ PostSummaries
    \/ ProviderAttempt
    \/ ProviderReturn
    \/ SearchContinue
    \/ SummariesContinue
    \/ StartAttempt
    \/ GrantAttempt
    \/ CompleteAttempt
    \/ BatchReturn
    \/ ExtractContinue
    \/ PostContent
    \/ PageAcquire
    \/ PageReturn
    \/ ContentContinue
    \/ Finish
    \/ Shutdown
    \/ Exit

Spec == Init /\ [][Next]_vars

-----------------------------------------------------------------------------
(* extractContentForResults called on its own: the initial state holds the *)
(* call's arguments, the actions are the extractor's.                      *)

ExtractInit ==
    /\ ucall = NoCall
    /\ pc = "direct"
    /\ args = NoArgs
    /\ body = NoBody
    /\ resp = NoResp
    /\ call = NoSearch
    /\ \E rs \in ExtractInputs, limit \in ExtractLimits : batch = NewBatch(rs, limit)
    /\ page = NoPage
    /\ peer = NoPeer
    /\ pool = EmptyPool
    /\ cleanup = NoCleanup

ExtractNext ==
    \/ StartAttempt
    \/ GrantAttempt
    \/ CompleteAttempt
    \/ BatchReturn

SpecExtract == ExtractInit /\ [][ExtractNext]_vars

FairSpecExtract == SpecExtract /\ WF_vars(ExtractNext)

-----------------------------------------------------------------------------
(* The utility functions called on their own: the initial state holds the  *)
(* arguments of one call, the action applies the function to them.         *)

UtilInit ==
    /\ \/ \E q \in UtilQueries, ds \in UtilDomainLists, m \in UtilThresholds :
             ucall = [fn |-> "buildDomainFilteredQuery", query |-> q, domains |-> ds,
                      maxDomainsInQuery |-> m, returned |-> FALSE, result |-> <<>>]
       \/ \E t \in UtilTexts, m \in UtilMaxLengths :
             ucall = [fn |-> "cleanText", text |-> t, maxLength |-> m, calls |-> 0,
                      once |-> <<>>, result |-> <<>>]
       \/ \E r \in FormatRecords, m \in FormatMaxLengths :
             ucall = [fn |-> "formatResult", record |-> r, maxContentLength |-> m,
                      returned |-> FALSE, result |-> <<>>]
       \/ \E d \in NormalizeInputs :
             ucall = [fn |-> "normalizeDomain", domain |-> d, returned |-> FALSE,
                      result |-> <<>>]
       \/ \E t \in UtilTexts, m \in UtilMaxLengths :
             ucall = [fn |-> "getContentPreview", text |-> t, maxLength |-> m,
                      returned |-> FALSE, result |-> <<>>]
    /\ pc = "direct"
    /\ args = NoArgs
    /\ body = NoBody
    /\ resp = NoResp
    /\ call = NoSearch
    /\ batch = NoBatch
    /\ page = NoPage
    /\ peer = NoPeer
    /\ pool = EmptyPool
    /\ cleanup = NoCleanup

CallBuildDomainFilteredQuery ==
    /\ ucall.fn = "buildDomainFilteredQuery"
    /\ ~ucall.returned
    /\ ucall' = [ucall EXCEPT !.returned = TRUE,
                  !.result = BuildDomainFilteredQuery(ucall.query, ucall.domains,
                                                      ucall.maxDomainsInQuery)]
    /\ UNCHANGED <<pc, args, body, resp, call, batch, page, peer, pool, cleanup>>

\* cleanText, and cleanText again on what the first call returned
CallCleanText ==
    /\ ucall.fn = "cleanText"
    /\ ucall.calls < 2
    /\ LET cleaned == CleanText(IF ucall.calls = 0 THEN ucall.text ELSE ucall.result,
                                ucall.maxLength)
       IN  ucall' = [ucall EXCEPT !.calls = @ + 1, !.result = cleaned,
                                  !.once = IF ucall.calls = 0 THEN cleaned ELSE @]
    /\ UNCHANGED <<pc, args, body, resp, call, batch, page, peer, pool, cleanup>>

CallGetContentPreview ==
    /\ ucall.fn = "getContentPreview"
    /\ ~ucall.returned
    /\ ucall' = [ucall EXCEPT !.returned = TRUE,
                  !.result = GetContentPreview(ucall.text, ucall.maxLength)]
    /\ UNCHANGED <<pc, args, body, resp, call, batch, page, peer, pool, cleanup>>

CallNormalizeDomain ==
    /\ ucall.fn = "normalizeDomain"
    /\ ~ucall.returned
    /\ ucall' = [ucall EXCEPT !.returned = TRUE, !.result = NormalizeDomain(ucall.domain)]
    /\ UNCHANGED <<pc, args, body, resp, call, batch, page, peer, pool, cleanup>>

\* the callback that formats one record of the /api/search response
CallFormatResult ==
    /\ ucall.fn = "formatResult"
    /\ ~ucall.returned
    /\ ucall' = [ucall EXCEPT !.returned = TRUE,
                  !.result = FormatResult(ucall.record, ucall.maxContentLength)]
    /\ UNCHANGED <<pc, args, body, resp, call, batch, page, peer, pool, cleanup>>

UtilNext ==
    \/ CallBuildDomainFilteredQuery
    \/ CallFormatResult
    \/ CallNormalizeDomain
    \/ CallCleanText
    \/ CallGetContentPreview

SpecUtil == UtilInit /\ [][UtilNext]_vars

-----------------------------------------------------------------------------
(* Two requests at once: a POST /api/search is in flight, awaiting the     *)
(* search engine, when a POST /api/search/summaries arrives; the handlers  *)
(* interleave at their awaits and share the one search engine.             *)

ConcurrentInit ==
    /\ ucall = NoCall
    /\ pc = "search"
    /\ \E b \in ConcurrentBodies :
          /\ args = ValidatedArgs("search", b)
          /\ call = NewSearch(b.query.v,
                              SearchLimit(LimitValue(b.limit).v,
                                          IncludeContentValue(b.includeContent),
                                          DomainsValue(b.domains)),
                              DomainsValue(b.domains))
    /\ body = NoBody
    /\ resp = NoResp
    /\ batch = NoBatch
    /\ page = NoPage
    /\ peer = NoPeer
    /\ pool = EmptyPool
    /\ cleanup = NoCleanup

\* the second request's POST /api/search/summaries up to its first await; a
\* rejected request goes through the finally block's closeAll
PeerPostSummaries ==
    /\ peer.st = "none"
    /\ \E b \in PeerBodies :
          IF SummariesRejection(b) # ""
          THEN /\ peer' = [peer EXCEPT !.st = "done", !.status = 400]
               /\ pool' = PoolCloseAll(pool).pool
               /\ cleanup' = Closed(cleanup, PoolCloseAll(pool))
          ELSE LET a == ValidatedArgs("summaries", b)
               IN  /\ peer' = [peer EXCEPT !.st = "search",
                                           !.call = NewSearch(a.query, a.limit, a.domains)]
                   /\ UNCHANGED <<pool, cleanup>>
    /\ UNCHANGED <<ucall, pc, args, body, resp, call, batch, page>>

\* the second request's provider in turn gets its session
PeerProviderAttempt ==
    /\ peer.st = "search"
    /\ peer.call.st = "acquiring"
    /\ PoolCanGrant(pool)
    /\ pool' = PoolAcquire(pool, PeerTask)
    /\ peer' = [peer EXCEPT !.call.st = "attempt",
                            !.call.tried = Append(@, Providers[peer.call.idx]),
                            !.call.inflight = @ \cup {Providers[peer.call.idx]}]
    /\ UNCHANGED <<ucall, pc, args, body, resp, call, batch, page, cleanup>>

\* the second request's provider answers or fails
PeerProviderReturn ==
    /\ peer.st = "search"
    /\ peer.call.st = "attempt"
    /\ \E o \in ProviderOutcomes :
          LET rs == AdapterResults(o.listing, peer.call.count)
          IN  peer' = [peer EXCEPT !.call =
                          IF o.kind \in ErrorKinds THEN AfterFailure(peer.call, o.kind)
                          ELSE IF rs = <<>> THEN AfterFailure(peer.call, "Empty")
                          ELSE AfterAnswer(peer.call, rs)]
    /\ pool' = PoolRelease(pool, PeerTask)
    /\ UNCHANGED <<ucall, pc, args, body, resp, call, batch, page, cleanup>>

\* the second request's response, then its finally block's closeAll
PeerSummariesContinue ==
    /\ peer.st = "search"
    /\ peer.call.st \in {"returned", "failed"}
    /\ peer' = [peer EXCEPT !.st = "done",
                            !.status = IF peer.call.st = "failed" THEN 500 ELSE 200]
    /\ pool' = PoolCloseAll(pool).pool
    /\ cleanup' = Closed(cleanup, PoolCloseAll(pool))
    /\ UNCHANGED <<ucall, pc, args, body, resp, call, batch, page>>

ConcurrentNext ==
    \/ ProviderAttempt
    \/ ProviderReturn
    \/ SearchContinue
    \/ PeerPostSummaries
    \/ PeerProviderAttempt
    \/ PeerProviderReturn
    \/ PeerSummariesContinue

SpecConcurrent == ConcurrentInit /\ [][ConcurrentNext]_vars

-----------------------------------------------------------------------------
(* The claims                                                              *)

\* the number a request's limit stands for: the default when absent, parseInt
\* of a string
RequestedCount(b) ==
    LET given == WithDefault(b.limit, JNum(DefaultLimit))
    IN  IF TypeOf(given) = "string" THEN ParseInt(given.v) ELSE given

\* C1 (as amended): whenever the orchestrator has been called, by /api/search
\* or by /api/search/summaries, the numResults it was given lies in [1,10];
\* a request whose limit is not a number in [1,10] is answered 400 with the
\* limit message and no search is started for it.
C1_EffectiveCountInRange ==
    /\ call.st # "none" => call.count \in MinLimit..MaxLimit
    /\ args.endpoint \in {"search", "summaries"} => args.limit \in MinLimit..MaxLimit
    /\ (pc = "done" /\ resp.status = 400 /\ resp.message = MsgLimit) =>
          /\ call.st = "none"
          /\ \/ RequestedCount(body).t # "number"
             \/ RequestedCount(body).v < MinLimit
             \/ RequestedCount(body).v > MaxLimit
    /\ (pc = "done" /\ resp.status = 400) =>
          (resp.message = MsgLimit <=>
              /\ ~QueryRejected(body.query)
              /\ \/ RequestedCount(body).t # "number"
                 \/ RequestedCount(body).v < MinLimit
                 \/ RequestedCount(body).v > MaxLimit)

\* C1, witness: /api/search was asked for 10 results with content, the
\* over-fetch 2*10+2 was capped and the orchestrator runs with numResults 10
C1_Witness ==
    /\ args.endpoint = "search"
    /\ args.limit = MaxLimit
    /\ args.includeContent
    /\ args.domains = <<>>
    /\ call.st = "attempt"
    /\ call.count = MaxLimit

\* C1 as stated: a requested count that is a number is never turned down for
\* its range, it is clamped and used
C1_OutOfRangeIsClamped ==
    (pc = "done" /\ resp.status = 400 /\ resp.message = MsgLimit) =>
        RequestedCount(body).t # "number"

\* C2 as stated: a 200 response of /api/search holds at most limit records,
\* with and without content
C2_AtMostLimitResults ==
    (pc = "done" /\ args.endpoint = "search" /\ resp.status = 200) =>
        /\ Len(resp.results) <= args.limit
        /\ resp.total_results <= args.limit

\* C3: at most one provider is in flight; the providers tried so far are a
\* prefix of the priority order; when the call returns, the engine is the
\* provider tried last, every provider before it left a failure reason and
\* none after it was tried; /api/search/summaries reports that engine.
C3_ProvidersInOrder ==
    /\ Cardinality(call.inflight) <= 1
    /\ Len(call.tried) <= Len(Providers)
    /\ call.tried = SubSeq(Providers, 1, Len(call.tried))
    /\ call.st = "returned" =>
          /\ call.inflight = {}
          /\ Len(call.tried) >= 1
          /\ call.engine = call.tried[Len(call.tried)]
          /\ Len(call.reasons) = Len(call.tried) - 1
          /\ \A i \in 1..Len(call.reasons) : call.reasons[i].provider = call.tried[i]
    /\ (pc = "done" /\ args.endpoint = "summaries" /\ resp.status = 200) =>
          /\ call.st = "returned"
          /\ resp.engine = call.engine

\* C3, witness: the first provider failed, the second answered, and the
\* summaries response names the second
C3_Witness ==
    /\ pc = "done"
    /\ args.endpoint = "summaries"
    /\ resp.status = 200
    /\ call.tried = <<"Bing", "Brave">>
    /\ Len(call.reasons) = 1
    /\ call.reasons[1].provider = "Bing"
    /\ resp.engine = "Brave"

AllFailed(c) ==
    /\ Len(c.reasons) = Len(Providers)
    /\ \A i \in 1..Len(Providers) :
          /\ c.reasons[i].provider = Providers[i]
          /\ c.reasons[i].reason \in ErrorKinds \cup {"Empty"}

\* C4 (as amended): a search call fails if and only if every provider failed,
\* and the failure carries one reason per provider; a call that returns holds
\* at least one record unless post-filtering by a domain list too long for
\* the query removed them all; the gateway answers a failed call with the
\* error response (500, success false), never with a 200.
C4_AggregateFailure ==
    /\ call.st = "failed" <=> (call.st # "none" /\ AllFailed(call))
    /\ call.st = "returned" => Len(call.reasons) < Len(Providers)
    /\ (call.st = "returned" /\ ~call.postFilter) => Len(call.results) >= 1
    /\ (pc = "done" /\ call.st = "failed") =>
          /\ resp.status = 500
          /\ ~resp.success
          /\ resp.results = <<>>
          /\ resp.total_results = 0
    /\ (pc = "done" /\ resp.status = 200 /\ args.endpoint = "summaries") =>
          call.st = "returned"

\* C4, witness: every provider failed, one of them for having no results,
\* and the client got the error response
C4_Witness ==
    /\ pc = "done"
    /\ call.st = "failed"
    /\ resp.status = 500
    /\ ~resp.success
    /\ call.reasons[1].reason = "Blocked"
    /\ call.reasons[2].reason = "Empty"
    /\ call.reasons[3].reason = "Timeout"

\* C4 as stated: a call that returns always holds at least one record, and a
\* 200 response never has zero results
C4_NeverEmptySuccess ==
    /\ call.st = "returned" => Len(call.results) >= 1
    /\ (pc = "done" /\ resp.status = 200) => resp.total_results >= 1

\* C5: the list extractContentForResults returns is as long as its input and
\* its i-th record has the i-th input record's url, whatever the order in
\* which the attempts ended.
C5_OrderPreserved ==
    batch.st = "returned" =>
        /\ Len(batch.out) = Len(batch.input)
        /\ \A i \in 1..Len(batch.input) : batch.out[i].url = batch.input[i].url

\* C5, witness: a later record's attempt ended before an earlier one's
C5_Witness ==
    /\ batch.st = "returned"
    /\ Len(batch.finished) >= 2
    /\ batch.finished[1] > batch.finished[2]
    /\ batch.out[batch.finished[1]].url # batch.out[batch.finished[2]].url

\* the records of this model whose URL is a document file: the path ends in
\* .pdf in any case, or the string does when it is no URL
DocumentUrls == {U2, U4, U5}

IsDocument(r) == r.url \in DocumentUrls

\* the positions of the first n records of rs that are no document files
RECURSIVE FirstNonDocuments(_, _, _)
FirstNonDocuments(rs, from, n) ==
    IF from > Len(rs) \/ n <= 0 THEN {}
    ELSE IF IsDocument(rs[from]) THEN FirstNonDocuments(rs, from + 1, n)
    ELSE {from} \cup FirstNonDocuments(rs, from + 1, n - 1)

\* C6: in extractContentForResults a document file is never attempted and
\* comes back as it went in, and it takes none of the limit's places: the
\* records attempted are exactly the first min(limit, number of non-document
\* records) non-document records, and every other record comes back as it
\* went in.
C6_DocumentsSkipped ==
    /\ batch.st # "none" =>
          /\ \A i \in batch.attempted : ~IsDocument(batch.input[i])
          /\ batch.attempted \subseteq FirstNonDocuments(batch.input, 1, batch.limit)
          /\ \A i \in 1..Len(batch.input) :
                IsDocument(batch.input[i]) => batch.out[i] = batch.input[i]
    /\ batch.st = "returned" =>
          /\ batch.attempted = FirstNonDocuments(batch.input, 1, batch.limit)
          /\ \A i \in 1..Len(batch.input) :
                IF i \in batch.attempted THEN batch.out[i].fetchStatus # "unset"
                ELSE batch.out[i] = batch.input[i]

\* C6, witness: a document file (with a query string after its .pdf path)
\* stands first, the limit is 1, and the one attempt went to the record
\* behind it, whose own query string ends in .pdf
C6_Witness ==
    /\ batch.st = "returned"
    /\ batch.limit = 1
    /\ Len(batch.input) = 3
    /\ batch.input[1].url = U5
    /\ batch.input[2].url = U3
    /\ batch.input[3].url = U1
    /\ batch.attempted = {2}
    /\ batch.out[1] = batch.input[1]
    /\ batch.out[2].fetchStatus = "success"

\* C7: extractContentForResults never raises; a record whose attempt failed
\* or timed out gets fetchStatus error or timeout with an error string and
\* keeps its title, url and description; every other attempt still ends with
\* its own outcome, and the call returns one record per input record.
C7_FailuresStayLocal ==
    /\ batch.st # "raised"
    /\ batch.st = "returned" =>
          /\ Len(batch.out) = Len(batch.input)
          /\ Len(batch.finished) = Cardinality(batch.attempted)
          /\ \A i \in batch.attempted :
                /\ batch.out[i].fetchStatus \in {"success", "error", "timeout"}
                /\ batch.out[i].fetchStatus \in {"error", "timeout"} =>
                      /\ batch.out[i].error # ""
                      /\ batch.out[i].title = batch.input[i].title
                      /\ batch.out[i].url = batch.input[i].url
                      /\ batch.out[i].description = batch.input[i].description
                      /\ batch.out[i].fullContent = <<>>
                /\ batch.out[i].fetchStatus = "success" =>
                      /\ batch.out[i].error = ""
                      /\ batch.out[i].fullContent # <<>>

\* C7, witness: the first attempt failed, the second succeeded, the third
\* timed out, and all three records came back
C7_Witness ==
    /\ batch.st = "returned"
    /\ Len(batch.out) = 3
    /\ batch.out[1].fetchStatus = "error"
    /\ batch.out[2].fetchStatus = "success"
    /\ batch.out[3].fetchStatus = "timeout"
    /\ batch.finished = <<1, 2, 3>>

Acquiring(i) == [idx |-> i, st |-> "acquiring"] \in batch.active

Fetching(i) == [idx |-> i, st |-> "fetching"] \in batch.active

\* C8: the live sessions never number more than the maximum, no session has
\* two owners and no task two sessions; a task that asks for a session while
\* the pool is full is kept waiting, and it gets its session in the end.
C8_PoolBounded ==
    /\ [](/\ Live(pool) <= MaxSessions
          /\ \A x, y \in pool.sessions : (x.id = y.id \/ x.owner = y.owner) => x = y
          /\ \A i \in 1..MaxResults : Fetching(i) <=> Holds(pool, i)
          /\ \A i \in 1..MaxResults : Acquiring(i) => ~Holds(pool, i))
    /\ \A i \in 1..MaxResults : Acquiring(i) ~> Fetching(i)

\* C8, witness: the pool is full and an attempt waits for a session
C8_Witness ==
    /\ Live(pool) = MaxSessions
    /\ \E i, j \in 1..MaxResults : Acquiring(i) /\ Fetching(j)

\* C9: closeAll never raises, neither on a pool that was never initialized
\* nor on one already closed; closing twice leaves what closing once leaves;
\* and after any number of closeAll calls the next search gets its session
\* from a pool that is initialized again (a search in flight holds a session
\* of an initialized pool, unless a shutdown signal has closed the pool
\* under it).
C9_CloseAllIdempotent ==
    /\ ~cleanup.raised
    /\ ~PoolCloseAll(pool).raised
    /\ PoolCloseAll(PoolCloseAll(pool).pool) = PoolCloseAll(pool)
    /\ pool.sessions # {} => pool.browser
    /\ (call.st = "attempt" /\ ~cleanup.exiting) =>
          pool.browser /\ Holds(pool, SearchTask)
    /\ (pc = "done" /\ args.endpoint = "summaries") => pool = EmptyPool

\* C9, witness: closeAll has run twice and a search is in flight on a pool
\* that was initialized again
C9_Witness ==
    /\ cleanup.closes = MaxCloses
    /\ pc = "search"
    /\ call.st = "attempt"
    /\ pool.browser
    /\ Holds(pool, SearchTask)

RECURSIVE OrClause(_)
\* "site:d1 OR site:d2 OR ..." as a string
OrClause(ds) ==
    IF Len(ds) = 1 THEN "site:" \o Str(ds[1])
    ELSE "site:" \o Str(ds[1]) \o " OR " \o OrClause(Tail(ds))

\* C10: with between 1 and maxDomainsInQuery normalized non-empty domains,
\* buildDomainFilteredQuery returns the query followed by " site:<d>" for one
\* domain and by " (site:<d1> OR site:<d2> OR ...)" for several, in the given
\* order; with none it returns the query unchanged; ("cats",
\* ["https://Example.com/", "www.example.org"], 10) gives
\* "cats (site:example.com OR site:example.org)".
C10_DomainFilteredQuery ==
    (ucall.fn = "buildDomainFilteredQuery" /\ ucall.returned) =>
        LET nd == NormalizedDomains(ucall.domains)
        IN  /\ Len(nd) = 0 => ucall.result = ucall.query
            /\ (Len(nd) = 1 /\ Len(nd) <= ucall.maxDomainsInQuery) =>
                  Str(ucall.result) = Str(ucall.query) \o " site:" \o Str(nd[1])
            /\ (Len(nd) > 1 /\ Len(nd) <= ucall.maxDomainsInQuery) =>
                  Str(ucall.result) = Str(ucall.query) \o " (" \o OrClause(nd) \o ")"
            /\ (/\ ucall.query = QCats
                /\ ucall.domains = <<DExampleCom, DExampleOrg>>
                /\ ucall.maxDomainsInQuery = DefaultMaxDomainsInQuery) =>
                  Str(ucall.result) = "cats (site:example.com OR site:example.org)"
            /\ (/\ ucall.query = QCats
                /\ ucall.domains = <<DBlank, DPortPath, DProtoOnly>>) =>
                  Str(ucall.result) = "cats site:a.com"

\* C10, witness: the call of the example has returned its query
C10_Witness ==
    /\ ucall.fn = "buildDomainFilteredQuery"
    /\ ucall.returned
    /\ ucall.query = QCats
    /\ ucall.domains = <<DExampleCom, DExampleOrg>>
    /\ ucall.maxDomainsInQuery = DefaultMaxDomainsInQuery
    /\ Str(ucall.result) = "cats (site:example.com OR site:example.org)"

\* C11 (as amended): buildDomainFilteredQuery and the orchestrator count the
\* domains that are left after normalization. With more of them than the
\* threshold the query text goes to the providers as it is and the accepted
\* provider's results are post-filtered by domain membership; with at least
\* one and at most the threshold the query is rewritten and no post-filtering
\* is applied; so exactly one of the two is used for a list with a non-empty
\* domain. A list whose entries all normalize to the empty string leaves the
\* query as it is.
C11_RewriteOrPostFilter ==
    (call.st # "none" /\ args.endpoint # "none") =>
        LET nd == NormalizedDomains(args.domains)
        IN  /\ call.domains = nd
            /\ Len(nd) > DefaultMaxDomainsInQuery =>
                  /\ call.text = args.query
                  /\ call.postFilter
                  /\ call.st = "returned" =>
                        \A i \in 1..Len(call.results) :
                            \E j \in 1..Len(nd) :
                                nd[j] = ExtractDomainFromUrl(call.results[i].url)
            /\ Len(nd) \in 1..DefaultMaxDomainsInQuery =>
                  /\ call.text # args.query
                  /\ StartsWith(call.text, args.query \o <<" ">>)
                  /\ ~call.postFilter
            /\ Len(nd) >= 1 => (call.postFilter <=> call.text = args.query)
            /\ Len(nd) = 0 => call.text = args.query

\* C11, witness: eleven domains, the query went out as it was, and of the
\* provider's three distinct results the two on a.com were kept
C11_Witness ==
    /\ call.st = "returned"
    /\ Len(NormalizedDomains(args.domains)) = DefaultMaxDomainsInQuery + 1
    /\ call.text = args.query
    /\ call.postFilter
    /\ Len(call.results) = 2
    /\ call.results[1].url = U1
    /\ call.results[2].url = U5

\* C11 as stated: for any non-empty domain list, more entries than the
\* threshold leave the query as it is and mark it for post-filtering, and
\* at most the threshold rewrite it with no post-filtering
C11_ByNumberOfDomains ==
    (call.st # "none" /\ Len(args.domains) > 0) =>
        IF Len(args.domains) > DefaultMaxDomainsInQuery
        THEN call.text = args.query /\ call.postFilter
        ELSE call.text # args.query /\ ~call.postFilter

\* C12 as stated: cleanText applied to what cleanText returned, with the same
\* maximum length, returns it unchanged, also when the first application cut
\* the text at the maximum length
C12_CleanTextIdempotent ==
    (ucall.fn = "cleanText" /\ ucall.calls = 2) => ucall.result = ucall.once

\* C13 as stated: the preview ends with "..." exactly when the cleaned text is
\* maxLength long, and a text that cleans to at most maxLength characters,
\* so that nothing of it was cut, comes back without an appended ellipsis
C13_EllipsisIffCut ==
    (ucall.fn = "getContentPreview" /\ ucall.returned) =>
        LET cleaned == CleanText(ucall.text, ucall.maxLength)
            whole   == CleanText(ucall.text, Len(ucall.text))
        IN  /\ EndsWith(ucall.result, ChEllipsis) <=> Len(cleaned) = ucall.maxLength
            /\ Len(whole) <= ucall.maxLength => ucall.result = whole

\* the input of normalizeDomain trimmed and lowercased, without one leading
\* protocol
StrippedOfProtocol(d) ==
    LET lowered == ToLowerCase(Trim(d))
    IN  IF StartsWith(lowered, ChHttps) THEN DropPrefix(lowered, Len(ChHttps))
        ELSE IF StartsWith(lowered, ChHttp) THEN DropPrefix(lowered, Len(ChHttp))
        ELSE lowered

\* C14 (as amended): normalizeDomain returns a lowercase string without '/',
\* without ':' and without a leading protocol; it is the input trimmed,
\* lowercased, without one leading protocol and then without one leading
\* "www.", up to the first '/' or ':'; it begins with "www." only when that
\* prefix stood twice in a row; "https://www.Example.com:8080/path" gives
\* "example.com".
C14_NormalizedDomain ==
    (ucall.fn = "normalizeDomain" /\ ucall.returned) =>
        LET r    == ucall.result
            np   == StrippedOfProtocol(ucall.domain)
            rest == IF StartsWith(np, ChWww) THEN DropPrefix(np, Len(ChWww)) ELSE np
        IN  /\ \A i \in 1..Len(r) :
                  /\ r[i] \notin {"/", ":"}
                  /\ \A j \in 1..Len(UpperChars) : r[i] # UpperChars[j]
            /\ ~StartsWith(r, ChHttp)
            /\ ~StartsWith(r, ChHttps)
            /\ r = SubSeq(rest, 1, FirstOf(rest, {"/", ":"}) - 1)
            /\ StartsWith(r, ChWww) => StartsWith(np, ChWww \o ChWww)
            /\ ucall.domain = DFull => Str(r) = "example.com"
            /\ ucall.domain = DPortPath => Str(r) = "a.com"
            /\ ucall.domain = DWwwTwice => Str(r) = "www.a.com"
            /\ ucall.domain = DProtoTwice => Str(r) = "https"
            /\ ucall.domain = DWwwProto => Str(r) = "http"

\* C14, witness: a padded, upper-case domain with protocol, www., port and
\* path came back as "a.com"
C14_Witness ==
    /\ ucall.fn = "normalizeDomain"
    /\ ucall.returned
    /\ ucall.domain = DPortPath
    /\ Str(ucall.result) = "a.com"

\* C14 as stated: whatever the input, the result has no leading "www.", and
\* it is the input lowercased, stripped of protocol and www. and cut at the
\* first '/' and ':', with no other step
C14_NoLeadingWww ==
    (ucall.fn = "normalizeDomain" /\ ucall.returned) =>
        LET lowered == ToLowerCase(ucall.domain)
            noProto == IF StartsWith(lowered, ChHttps) THEN DropPrefix(lowered, Len(ChHttps))
                       ELSE IF StartsWith(lowered, ChHttp) THEN DropPrefix(lowered, Len(ChHttp))
                       ELSE lowered
            noWww   == IF StartsWith(noProto, ChWww) THEN DropPrefix(noProto, Len(ChWww))
                       ELSE noProto
        IN  /\ ~StartsWith(ucall.result, ChWww)
            /\ ucall.result = BeforeFirst(BeforeFirst(noWww, "/"), ":")

\* the domain a result's URL lies on is one of the domains ds
OnDomains(r, ds) == \E j \in 1..Len(ds) : ds[j] = ExtractDomainFromUrl(r.url)

\* C15 (as amended): a search with domains returns at most the requested
\* count of records, and when the query was left as it is and the results
\* were post-filtered, every record lies on one of the domains; when the
\* query was rewritten the accepted provider's results are returned as the
\* provider gave them, in its order, cut to the count.
C15_DomainScopedOutput ==
    (call.st = "returned" /\ call.domains # <<>>) =>
        /\ Len(call.results) <= call.count
        /\ call.postFilter => \A i \in 1..Len(call.results) :
                                  OnDomains(call.results[i], call.domains)
        /\ \A i, j \in 1..Len(call.results) :
              i # j => call.results[i].url # call.results[j].url

\* C15, witness: eleven domains, a.com among them, count 3; the provider
\* listed five results, two of them on c.org, and the post-filtered output
\* is the one result on a.com
C15_Witness ==
    /\ call.st = "returned"
    /\ args.endpoint = "summaries"
    /\ call.postFilter
    /\ Len(call.domains) = DefaultMaxDomainsInQuery + 1
    /\ call.count = 3
    /\ Len(call.results) = 1
    /\ call.results[1].url = U1
    /\ call.engine = "Bing"

\* C15 as stated: with a non-empty domain list every returned record lies on
\* one of the domains, whether the query was rewritten or the results were
\* post-filtered, and there are at most count records
C15_AllOnDomains ==
    (call.st = "returned" /\ call.domains # <<>>) =>
        /\ Len(call.results) <= call.count
        /\ \A i \in 1..Len(call.results) : OnDomains(call.results[i], call.domains)

\* C16: a formatted record of the /api/search response never carries both
\* fullContent and contentPreview; it carries fullContent exactly when the
\* result's full content is not blank, and contentPreview exactly when the
\* full content is blank and the preview is not; wordCount, contentTruncated
\* and originalLength come only with fullContent.
C16_ContentOrPreview ==
    (ucall.fn = "formatResult" /\ ucall.returned) =>
        LET f == ucall.result
            r == ucall.record
        IN  /\ ~({"fullContent", "contentPreview"} \subseteq f.has)
            /\ "wordCount" \in f.has => "fullContent" \in f.has
            /\ {"contentTruncated", "originalLength"} \cap f.has # {} =>
                  "fullContent" \in f.has
            /\ "fullContent" \in f.has <=> Trim(r.fullContent) # <<>>
            /\ "contentPreview" \in f.has <=>
                  (Trim(r.fullContent) = <<>> /\ Trim(r.contentPreview) # <<>>)
            /\ "fullContent" \notin f.has => f.fullContent = <<>> /\ f.wordCount = 0
            /\ "contentPreview" \notin f.has => f.contentPreview = <<>>

\* C16, witness: a result with both a full content and a preview was
\* formatted, and the record carries the full content and its word count
C16_Witness ==
    /\ ucall.fn = "formatResult"
    /\ ucall.returned
    /\ ucall.record.fullContent = PageText
    /\ ucall.record.contentPreview = ChPreview
    /\ ucall.result.has = {"title", "url", "description", "fetchStatus",
                           "fullContent", "wordCount"}
    /\ ucall.result.wordCount = 2

\* C17 as stated: a 200 response of /api/content to a request with a positive
\* maxContentLength m has a content of at most m characters, contentTruncated
\* true exactly when the page's cleaned text was longer than m, and
\* originalLength the length of that text before it was cut
C17_TruncationReported ==
    (pc = "done" /\ args.endpoint = "content" /\ resp.status = 200
        /\ args.maxContentLength > 0) =>
        /\ Len(resp.content) <= args.maxContentLength
        /\ resp.contentTruncated = JBool(Len(page.cleaned) > args.maxContentLength)
        /\ resp.originalLength = Len(page.cleaned)

\* C18 as stated: while a search of one request is in flight, its provider
\* attempt holds its session: no closeAll that another request's
\* /api/search/summaries handler runs tears it down
C18_InFlightSearchKeepsSession ==
    call.st = "attempt" => Holds(pool, SearchTask)

\* C19 as stated: the step in which a request is answered with status 400
\* calls nothing on the search engine or the content extractor, closeAll
\* included, and leaves the session pool as it was
C19_RejectionTouchesNothing ==
    [][(pc = "idle" /\ pc' = "done" /\ resp'.status = 400) =>
          /\ pool' = pool
          /\ cleanup' = cleanup
          /\ call' = call
          /\ batch' = batch
          /\ page' = page]_vars

====
